---- MODULE Spec2Model ----
(***************************************************************************)
(* Model of parseKoreanSchedule (lib/parse-korean-schedule.ts).            *)
(*                                                                         *)
(* The parser is a pure function of (sentence, now, defaultDuration).      *)
(* A sentence is represented by the capture groups MATCHER yields for it;  *)
(* Korean tokens are written romanised (oneul = today, naeil = tomorrow,   *)
(* more = day after tomorrow, idal/ibeondal = this month, damdal/daeumdal  *)
(* = next month, naenyeon = next year, ibeonju = this week, damju/daeumju  *)
(* = next week, dadamju/dadaeumju = week after next, il..to = Sun..Sat,    *)
(* saebyeok/achim/ojeon = AM words, jeomsim/ohu/jeonyeok/bam = PM words,   *)
(* si = o'clock, bun = minutes, ban = half).                               *)
(*                                                                         *)
(* A Date is a local wall-clock instant [y, m, d, ms]: full year, month    *)
(* index 0..11, day of month, milliseconds since local midnight.  The      *)
(* local time zone has a fixed offset (no daylight-saving transitions),    *)
(* so the order of instants is the lexicographic order of these fields.    *)
(***************************************************************************)
EXTENDS Integers, Sequences, FiniteSets, TLC

Undefined == 0 - 1

IsDef(v) == v # Undefined

MsPerMinute == 60 * 1000

MsPerHour == 60 * MsPerMinute

MsPerDay == 24 * MsPerHour

(***************************************************************************)
(* Date arithmetic of the host Date object, as the parser uses it.         *)
(***************************************************************************)
IsLeapYear(y) == (y % 4 = 0 /\ y % 100 # 0) \/ y % 400 = 0

DaysInMonth(y, m) ==
  IF m = 1 THEN (IF IsLeapYear(y) THEN 29 ELSE 28)
  ELSE IF m \in {3, 5, 8, 10} THEN 30 ELSE 31

RECURSIVE NormalizeDay(_, _, _, _)
NormalizeDay(y, m, d, ms) ==
  IF d < 1
    THEN LET py == IF m = 0 THEN y - 1 ELSE y
             pm == IF m = 0 THEN 11 ELSE m - 1
         IN  NormalizeDay(py, pm, d + DaysInMonth(py, pm), ms)
  ELSE IF d > DaysInMonth(y, m)
    THEN LET ny == IF m = 11 THEN y + 1 ELSE y
             nm == IF m = 11 THEN 0 ELSE m + 1
         IN  NormalizeDay(ny, nm, d - DaysInMonth(y, m), ms)
  ELSE [y |-> y, m |-> m, d |-> d, ms |-> ms]

\* MakeDay/MakeTime: month, day and time-of-day overflow carry upwards.
MakeDate(y, monthIndex, d, ms) ==
  NormalizeDay(y + (monthIndex \div 12), monthIndex % 12,
               d + (ms \div MsPerDay), ms % MsPerDay)

\* new Date(year, monthIndex, day, h, mi, s, ms): a year argument in 0..99
\* denotes 1900 + year.
NewDate(year, monthIndex, d, ms) ==
  MakeDate(IF year >= 0 /\ year <= 99 THEN 1900 + year ELSE year,
           monthIndex, d, ms)

\* a < b on Date objects (comparison of the time values)
Before(a, b) ==
  \/ a.y < b.y
  \/ a.y = b.y /\ a.m < b.m
  \/ a.y = b.y /\ a.m = b.m /\ a.d < b.d
  \/ a.y = b.y /\ a.m = b.m /\ a.d = b.d /\ a.ms < b.ms

\* new Date(date.getTime() + ms)
PlusMs(date, ms) == MakeDate(date.y, date.m, date.d, date.ms + ms)

\* Date.prototype.getDay: 0 = Sunday .. 6 = Saturday
GetDay(date) ==
  LET a  == IF date.m < 2 THEN 1 ELSE 0
      yy == date.y - a
      mm == date.m + 1 + 12 * a - 2
  IN  (date.d + yy + (yy \div 4) - (yy \div 100) + (yy \div 400)
       + ((31 * mm) \div 12)) % 7

startOfDay(date) == NewDate(date.y, date.m, date.d, 0)

addDays(date, days) == MakeDate(date.y, date.m, date.d + days, date.ms)

addMonths(date, months) == NewDate(date.y, date.m + months, date.d, 0)

addYears(date, years) == NewDate(date.y + years, date.m, date.d, date.ms)

\* variant: every month is taken to have 31 days
isValidDayOfMonth_upTo31(year, month, day) == day >= 1 /\ day <= 31

isValidDayOfMonth(year, month, day) ==
  LET maxDay == NewDate(year, month, 0, 0).d
  IN  day >= 1 /\ day <= maxDay


(***************************************************************************)
(* Token tables (lines 27-30) and what MATCHER captures.                   *)
(***************************************************************************)
DAY_MODIFIER_TOKENS == <<"oneul", "naeil", "more">>

WEEKDAY_TOKENS == <<"il", "wol", "hwa", "su", "mok", "geum", "to">>

AM_TOKENS == {"saebyeok", "achim", "ojeon"}

PM_TOKENS == {"jeomsim", "ohu", "jeonyeok", "bam"}

THIS_MONTH_TOKENS == {"idal", "ibeondal"}

NEXT_MONTH_TOKENS == {"damdal", "daeumdal"}

WEEK_MODIFIER_TOKENS == {"ibeonju", "damju", "daeumju", "dadamju", "dadaeumju"}

WEEKDAY_SUFFIXES == {"yoil", "yol"}

\* Array.prototype.findIndex with an equality test: 0-based, -1 if absent
findIndex(seq, tok) ==
  IF \E i \in 1..Len(seq) : seq[i] = tok
    THEN (CHOOSE i \in 1..Len(seq) : seq[i] = tok) - 1
    ELSE 0 - 1

(***************************************************************************)
(* Bounds of the explored inputs.                                          *)
(***************************************************************************)
MaxDay == 32

MaxMonth == 13

MaxHour == 24

MaxMinute == 60

MaxDuration == 90

MaxRolls == 3

NowYears == {2023, 2024}

\* month (1-based) and day of the explored values of now
NowMonthDays == {<<1, 1>>, <<1, 31>>, <<2, 17>>, <<2, 28>>, <<2, 29>>,
                 <<3, 1>>, <<6, 30>>, <<12, 31>>}

\* time of day of now: midnight, 09:00:00.000, 09:00:00.001, 23:59:59.999
NowTimes == {0, 9 * MsPerHour, 9 * MsPerHour + 1, MsPerDay - 1}

Nows ==
  { n \in { [y |-> y, m |-> md[1] - 1, d |-> md[2], ms |-> t] :
              y \in NowYears, md \in NowMonthDays, t \in NowTimes } :
      n.d <= DaysInMonth(n.y, n.m) }

DayDigits == {0, 1, 17, 28, 29, 30, 31, MaxDay}

MonthDigits == {0, 1, 2, 3, 12, MaxMonth}

\* the numerals explored after an explicit year
FewDayDigits == {0, 1, 29, 31, MaxDay}

FewMonthDigits == {0, 2, 12, MaxMonth}

YearDigits == {0, 99, 2023, 2024, 2025}

HourDigits == 0..MaxHour

MinuteDigits == {0, 30, 59, MaxMinute}

Durations == {Undefined, MaxDuration}

(***************************************************************************)
(* match[1] (absoluteDate), match[4], match[5]: the date expression.       *)
(*   word       day modifier or month modifier, "" if none                 *)
(*   yearTok    "naenyeon", "digits" (YYYY followed by the year mark), ""  *)
(*   yearDigits, monthDigits, dayDigits: the numerals, Undefined if absent *)
(***************************************************************************)
DateExpr(word, yearTok, yd, md, dd, wm, wd, sfx) ==
  [word |-> word, yearTok |-> yearTok, yearDigits |-> yd,
   monthDigits |-> md, dayDigits |-> dd,
   weekModifierToken |-> wm, weekdayToken |-> wd, weekdaySuffix |-> sfx]

DayModifierExprs ==
  { DateExpr(w, "", Undefined, Undefined, Undefined, "", "", "") :
      w \in {"oneul", "naeil", "more"} }

WeekdayExprs ==
  { DateExpr("", "", Undefined, Undefined, Undefined, wm, wd, sfx) :
      wm \in WEEK_MODIFIER_TOKENS \cup {""},
      wd \in {"il", "wol", "hwa", "su", "mok", "geum", "to"},
      sfx \in WEEKDAY_SUFFIXES }

MonthModifierExprs ==
  { DateExpr(w, "", Undefined, Undefined, dd, "", "", "") :
      w \in THIS_MONTH_TOKENS \cup NEXT_MONTH_TOKENS, dd \in DayDigits }

MonthDayExprs ==
  { DateExpr("", "", Undefined, md, dd, "", "", "") :
      md \in MonthDigits \cup {Undefined}, dd \in DayDigits }

YearMonthDayExprs ==
  { DateExpr("", "naenyeon", Undefined, md, dd, "", "", "") :
      md \in FewMonthDigits, dd \in FewDayDigits }
  \cup
  { DateExpr("", "digits", yd, md, dd, "", "", "") :
      yd \in YearDigits, md \in FewMonthDigits, dd \in FewDayDigits }

DateExprs ==
  DayModifierExprs \cup WeekdayExprs \cup MonthModifierExprs
    \cup MonthDayExprs \cup YearMonthDayExprs

(***************************************************************************)
(* match[8], match[9], match[10]: the time expression.                     *)
(*   hourForm    "si" (H followed by the hour mark), "colon" (H:MM), ""    *)
(*   minuteForm  "bun" (M followed by the minute mark), "ban", ""          *)
(***************************************************************************)
TimeExpr(ampm, hf, h, mm, mf, m) ==
  [ampmToken |-> ampm, hourForm |-> hf, hourDigits |-> h,
   colonMinuteDigits |-> mm, minuteForm |-> mf, minuteDigits |-> m]

NoTime == TimeExpr("", "", Undefined, Undefined, "", Undefined)

MinuteRefinements ==
  {<<"", Undefined>>, <<"ban", Undefined>>}
    \cup {<<"bun", m>> : m \in MinuteDigits}

TimeExprs ==
  {NoTime}
  \cup
  { TimeExpr(a, "si", h, Undefined, r[1], r[2]) :
      a \in AM_TOKENS \cup PM_TOKENS \cup {""}, h \in HourDigits,
      r \in MinuteRefinements }
  \cup
  { TimeExpr(a, "colon", h, mm, r[1], r[2]) :
      a \in AM_TOKENS \cup PM_TOKENS \cup {""}, h \in HourDigits,
      mm \in MinuteDigits,
      r \in {<<"", Undefined>>, <<"ban", Undefined>>, <<"bun", 0>>,
              <<"bun", MaxMinute>>} }

\* the time expressions explored together with every date expression
FewTimeExprs ==
  { NoTime,
    TimeExpr("", "si", 9, Undefined, "", Undefined),
    TimeExpr("", "colon", 23, 30, "", Undefined) }

FewDateExprs ==
  { DateExpr(w, "", Undefined, Undefined, Undefined, "", "", "") :
      w \in {"oneul", "naeil"} }

FewNows == { n \in Nows : n.y = 2024 /\ n.m = 1 /\ n.d = 17
                            /\ n.ms = 9 * MsPerHour }

NoDateExpr == DateExpr("", "", Undefined, Undefined, Undefined, "", "", "")

(***************************************************************************)
(* A sentence is a sequence of tokens, written without separators:         *)
(*   date   a date expression (one alternative of MATCHER group 1)         *)
(*   time   a time expression (MATCHER group 7 without surrounding blanks) *)
(*   e      the particle, eseo the location marker (it begins with the     *)
(*          particle), seo what is left of the marker without the particle *)
(*   word   other text, sp a blank                                         *)
(***************************************************************************)
Tok(kind, de, te) == [kind |-> kind, date |-> de, time |-> te]

Txt(kind) == Tok(kind, NoDateExpr, NoTime)

DateTok(de) == Tok("date", de, NoTime)

TimeTok(te) == Tok("time", NoDateExpr, te)

\* what a sentence with these date and time expressions looks like
Phrase(de, te) ==
  IF te = NoTime THEN <<DateTok(de)>> ELSE <<DateTok(de), Txt("sp"), TimeTok(te)>>

\* String.prototype.trim
trim(s) ==
  LET text == {i \in 1..Len(s) : s[i].kind # "sp"}
  IN  IF text = {} THEN <<>>
      ELSE SubSeq(s, CHOOSE i \in text : \A j \in text : i <= j,
                     CHOOSE i \in text : \A j \in text : i >= j)

\* the first position from i on that does not hold a blank
SkipBlanks(s, i) ==
  LET stops == {j \in i..Len(s) : s[j].kind # "sp"}
  IN  IF stops = {} THEN Len(s) + 1
      ELSE CHOOSE j \in stops : \A k \in stops : j <= k

\* the match array: form "matched" or "unmatched", the date and time
\* captures, match[12] (place, <<>> if undefined) and the text after match[0]
MatchOf(form, de, te, place, rest) ==
  [form |-> form, date |-> de, time |-> te, place |-> place, rest |-> rest]

NoMatch == MatchOf("unmatched", NoDateExpr, NoTime, <<>>, <<>>)

\* the value of a one-element set; binding the steps of the matcher through
\* one-element sets makes each step computed once
the(S) == CHOOSE x \in S : TRUE

\* groups 11 and 12, ( *(.+)eseo)? and the final blanks, from position p of
\* s; .+ is greedy, so the clause ends at the last marker that has text
\* before it
MatchPlace(s, de, te, p, markers) ==
  LET last == CHOOSE j \in markers : \A k \in markers : j >= k
  IN  MatchOf("matched", de, te,
              IF markers = {} THEN <<>> ELSE SubSeq(s, p, last - 1),
              SubSeq(s, SkipBlanks(s, IF markers = {} THEN p ELSE last + 1),
                     Len(s)))

\* (e)? at position a: the particle, also when it is the head of a marker,
\* of which seo is then left
MatchParticle(s, de, te, a) ==
  LET split == a <= Len(s) /\ s[a].kind = "eseo"
      p     == IF a <= Len(s) /\ s[a].kind = "e" THEN a + 1 ELSE a
  IN  the({ MatchPlace(s2, de, te, p, markers) :
              s2 \in {IF split THEN [s EXCEPT ![a] = Txt("seo")] ELSE s},
              markers \in {{j \in (p + 1)..Len(s) : s[j].kind = "eseo"}} })

\* group 7, ( *time *)?, with t the first position after the blanks that
\* follow the date expression
MatchTime(s, t) ==
  LET hasTime7 == t <= Len(s) /\ s[t].kind = "time"
  IN  the({ MatchParticle(s, s[1].date,
                          IF hasTime7 THEN s[t].time ELSE NoTime, a) :
              a \in {IF hasTime7 THEN SkipBlanks(s, t + 1) ELSE 2} })

\* line 34, MATCHER applied at the start of s:
\*   ^(date)( *time *)?(e)?( *(.+)eseo)? *
MATCHER(s) ==
  IF s = <<>> \/ s[1].kind # "date" THEN NoMatch
  ELSE the({ MatchTime(s, t) : t \in {SkipBlanks(s, 2)} })

\* variant: a sticky expression
MATCHER_FLAGS_sticky == {"u", "y"}

\* flags of the MATCHER literal (line 34)
MATCHER_FLAGS == {"u"}

\* RegExpBuiltinExec starts at lastIndex only for a global or sticky
\* expression
usesLastIndex == "g" \in MATCHER_FLAGS \/ "y" \in MATCHER_FLAGS

\* the words explored in the free text of a sentence
TailAlphabet ==
  { Txt("sp"), Txt("e"), Txt("eseo"), Txt("word"),
    TimeTok(TimeExpr("ohu", "si", 3, Undefined, "ban", Undefined)),
    DateTok(DateExpr("naeil", "", Undefined, Undefined, Undefined, "", "", "")) }

MaxTail == 4

RECURSIVE SeqsUpTo(_, _)
SeqsUpTo(S, n) ==
  IF n = 0 THEN {<<>>}
  ELSE LET shorter == SeqsUpTo(S, n - 1)
       IN  shorter \cup {Append(q, x) : q \in shorter, x \in S}

Tails == SeqsUpTo(TailAlphabet, MaxTail)

\* one date expression of each family
FamilyExprs ==
  { DateExpr("naeil", "", Undefined, Undefined, Undefined, "", "", ""),
    DateExpr("", "", Undefined, Undefined, Undefined, "daeumju", "hwa", "yoil"),
    DateExpr("daeumdal", "", Undefined, Undefined, 3, "", "", ""),
    DateExpr("", "", Undefined, 3, 12, "", "", ""),
    DateExpr("", "naenyeon", Undefined, 1, 2, "", "", "") }

\* sentences that vary in structure: any text, or a date expression and
\* any text, possibly after a blank
Sentences ==
  { lead \o body : lead \in {<<>>, <<Txt("sp")>>},
                   body \in Tails \cup { <<DateTok(de)>> \o tail :
                                           de \in FamilyExprs, tail \in Tails } }

NoDate == [y |-> Undefined, m |-> Undefined, d |-> Undefined, ms |-> Undefined]

NoLocation == [present |-> FALSE, text |-> <<>>]

NoResult == [ok |-> FALSE, error |-> "", start |-> NoDate, end |-> NoDate,
             allDay |-> FALSE, title |-> <<>>, location |-> NoLocation,
             source |-> <<>>]

Failure(msg) == [ok |-> FALSE, error |-> msg, start |-> NoDate, end |-> NoDate,
                 allDay |-> FALSE, title |-> <<>>, location |-> NoLocation,
                 source |-> <<>>]

\* input, now, duration: the arguments; match .. result: the locals of one
\* call; lastIndex: MATCHER.lastIndex, the one mutable property that
\* outlives a call; prev: an earlier call and its result
VARIABLES input, now, duration, pc, match, year, month, day, hour, minute,
          ampm, dateExpressionKind, place, title, start, end, computed,
          rolls, result, lastIndex, prev

vars == <<input, now, duration, pc, match, year, month, day, hour, minute,
          ampm, dateExpressionKind, place, title, start, end, computed,
          rolls, result, lastIndex, prev>>

args == <<input, now, duration>>

fields == <<year, month, day, hour, minute, ampm, dateExpressionKind>>

texts == <<place, title>>

NoPrev == [set |-> FALSE, input |-> <<>>, now |-> NoDate,
           duration |-> Undefined, result |-> NoResult]

Locals ==
  /\ pc = "match"
  /\ match = NoMatch
  /\ year = Undefined /\ month = Undefined /\ day = Undefined
  /\ hour = Undefined /\ minute = Undefined
  /\ ampm = "" /\ dateExpressionKind = ""
  /\ place = NoLocation /\ title = <<>>
  /\ start = NoDate /\ end = NoDate /\ computed = NoDate
  /\ rolls = 0
  /\ result = NoResult

Init ==
  /\ \/ /\ input \in {Phrase(de, te) : de \in DateExprs, te \in FewTimeExprs}
        /\ now \in Nows
        /\ duration = Undefined
     \/ /\ input \in {Phrase(de, te) : de \in FewDateExprs, te \in TimeExprs}
        /\ now \in FewNows
        /\ duration \in Durations
     \/ /\ input \in Sentences
        /\ now \in FewNows
        /\ duration = Undefined
  /\ Locals
  /\ lastIndex = 0
  /\ prev = NoPrev

\* the calls whose date expression is a bare month/day or a day modifier
InitYearRoll ==
  /\ \/ /\ input \in {Phrase(de, te) :
                        de \in MonthDayExprs \cup DayModifierExprs,
                        te \in FewTimeExprs}
        /\ now \in Nows
        /\ duration = Undefined
     \/ /\ input \in {<<>>, <<Txt("word")>>}
        /\ now \in FewNows
        /\ duration = Undefined
  /\ Locals
  /\ lastIndex = 0
  /\ prev = NoPrev

today == startOfDay(now)

DEFAULT_DURATION_MINUTES == 60

durationMinutes(option) ==
  IF IsDef(option) THEN option ELSE DEFAULT_DURATION_MINUTES

Fail(msg) ==
  /\ pc' = "done"
  /\ result' = Failure(msg)

\* variant: match[12] as captured
placeOf_raw(m) ==
  IF m.place = <<>> THEN NoLocation ELSE [present |-> TRUE, text |-> m.place]

\* line 64: match[12]?.trim() || undefined
placeOf(m) ==
  IF trim(m.place) = <<>> THEN NoLocation
  ELSE [present |-> TRUE, text |-> trim(m.place)]

\* variant: the emptiness test without trim
isBlank_noTrim(s) == s = <<>>

\* line 37: !input.trim()
isBlank(s) == trim(s) = <<>>

\* line 44
scheduleString == trim(input)

\* lastIndex after an execution on str that found m
lastIndexAfter(str, m) ==
  IF ~usesLastIndex THEN lastIndex
  ELSE IF m.form # "matched" THEN 0
  ELSE IF Len(str) > Len(m.rest) THEN Len(str) - Len(m.rest) ELSE 1

\* RegExpBuiltinExec of MATCHER on str: the match and the new lastIndex;
\* the expression is anchored, so it matches only from position 0
exec(str) ==
  the({ [match |-> m, lastIndex |-> lastIndexAfter(str, m)] :
          m \in {IF usesLastIndex /\ lastIndex # 0 THEN NoMatch
                 ELSE MATCHER(str)} })

\* lines 37-52: blank input and sentences MATCHER does not match
Match ==
  /\ pc = "match"
  /\ IF isBlank(input)
       THEN Fail("empty") /\ UNCHANGED <<match, lastIndex>>
       ELSE \E r \in {exec(scheduleString)} :
                /\ match' = r.match
                /\ lastIndex' = r.lastIndex
                /\ IF r.match.form # "matched"
                     THEN Fail("pattern")
                     ELSE pc' = "resolve" /\ UNCHANGED result
  /\ UNCHANGED <<args, fields, texts, start, end, computed, rolls, prev>>

(***************************************************************************)
(* Lines 58-212: the captured tokens become numbers and a date kind.       *)
(***************************************************************************)
\* variant: the modifiers counted from one
dayModifierOf_fromOne(ad) ==
  IF ad.word \in {"oneul", "naeil", "more"}
    THEN findIndex(DAY_MODIFIER_TOKENS, ad.word) + 1
    ELSE Undefined

\* lines 76-79
dayModifierOf(ad) ==
  IF ad.word \in {"oneul", "naeil", "more"}
    THEN LET modifierIndex == findIndex(DAY_MODIFIER_TOKENS, ad.word)
         IN  IF modifierIndex >= 0 THEN modifierIndex ELSE Undefined
    ELSE Undefined

\* lines 81-87
monthModifierOf(ad) ==
  IF ad.word \in NEXT_MONTH_TOKENS THEN 1
  ELSE IF ad.word \in THIS_MONTH_TOKENS THEN 0
  ELSE Undefined

\* variant: only a year in numerals is recognised
fullDateMatch_numeralYear(ad) ==
  ad.yearTok = "digits" /\ IsDef(ad.monthDigits) /\ IsDef(ad.dayDigits)

\* line 95: a year part, a month numeral and a day numeral
fullDateMatch(ad) ==
  ad.yearTok # "" /\ IsDef(ad.monthDigits) /\ IsDef(ad.dayDigits)

\* lines 113-117 and 178: absoluteDate survives only when it consists of
\* numerals, the month mark, the day mark and spaces
absoluteMonthDayMatch(ad) ==
  /\ ad.word = "" /\ ad.yearTok = "" /\ ad.weekdayToken = ""
  /\ IsDef(ad.dayDigits)

\* variant: a plain method call, which throws a TypeError on undefined
absoluteDateCall_plain(ad) ==
  IF ad.word = "" /\ ad.yearTok = "" /\ ad.weekdayToken = ""
    THEN "match" ELSE "throw"

\* lines 113-117 and 178, absoluteDate?.match(...): absoluteDate is undefined
\* unless it consists of numerals, the month mark, the day mark and spaces
absoluteDateCall(ad) ==
  IF ad.word = "" /\ ad.yearTok = "" /\ ad.weekdayToken = ""
    THEN "match" ELSE "undefined"

\* lines 119-128
weekModifierOf(tok) ==
  IF tok = "ibeonju" THEN 0
  ELSE IF tok \in {"damju", "daeumju"} THEN 7
  ELSE IF tok \in {"dadamju", "dadaeumju"} THEN 14
  ELSE Undefined

\* lines 130-137: the suffix is dropped, the day letter is looked up
weekdayOf(ad) ==
  IF ad.weekdayToken = "" THEN Undefined
  ELSE LET weekdayIndex == findIndex(WEEKDAY_TOKENS, ad.weekdayToken)
       IN  IF weekdayIndex >= 0 THEN weekdayIndex ELSE Undefined

\* lines 139-151
hourOf(te) == IF te.hourForm = "" THEN Undefined ELSE te.hourDigits

\* lines 63, 144, 163-176: H:MM overwrites the minute refinement
minuteOf(te) ==
  IF te.hourForm = "colon" THEN te.colonMinuteDigits
  ELSE IF te.minuteForm = "ban" THEN 30
  ELSE IF te.minuteForm = "bun" THEN te.minuteDigits
  ELSE 0

\* lines 153-161
ampmOf(tok) ==
  IF tok \in PM_TOKENS THEN "pm" ELSE IF tok \in AM_TOKENS THEN "am" ELSE ""

\* variant: Sunday keeps its index 0
normalizedWeekday_asIs(weekday) == weekday

\* line 200
normalizedWeekday(weekday) == IF weekday = 0 THEN 7 ELSE weekday

Resolved(kind, y, mo, d) ==
  [failed |-> FALSE, kind |-> kind, year |-> y, month |-> mo, day |-> d]

\* lines 208-212
FromDate(kind, date) == Resolved(kind, date.y, date.m + 1, date.d)

\* lines 75-117 and 178-212
ResolveDate(ad, tdy) ==
  LET dayModifier   == dayModifierOf(ad)
      monthModifier == monthModifierOf(ad)
      full          == fullDateMatch(ad)
      year0  == IF ~full THEN Undefined
                ELSE IF ad.yearTok = "digits" THEN ad.yearDigits
                ELSE tdy.y + 1
      month0 == IF full THEN ad.monthDigits ELSE Undefined
      day0   == IF full \/ IsDef(monthModifier) THEN ad.dayDigits
                ELSE Undefined
      kind0  == IF full THEN "absolute-with-year" ELSE ""
      weekModifier == weekModifierOf(ad.weekModifierToken)
      weekday      == weekdayOf(ad)
  IN  IF absoluteMonthDayMatch(ad)
        THEN Resolved("absolute-month-day", tdy.y,
                      IF IsDef(ad.monthDigits) THEN ad.monthDigits
                                               ELSE tdy.m + 1,
                      ad.dayDigits)
      ELSE IF IsDef(monthModifier) /\ IsDef(day0)
        THEN LET shiftedDate  == addMonths(tdy, monthModifier)
                 shiftedYear  == shiftedDate.y
                 shiftedMonth == shiftedDate.m + 1
             IN  IF ~isValidDayOfMonth(shiftedYear, shiftedMonth, day0)
                   THEN [failed |-> TRUE, kind |-> "month-modifier",
                         year |-> year0, month |-> month0, day |-> day0]
                   ELSE FromDate("month-modifier",
                                 NewDate(shiftedYear, shiftedMonth - 1, day0, 0))
      ELSE IF IsDef(weekday)
        THEN LET offset == (IF IsDef(weekModifier) THEN weekModifier ELSE 0)
                             - GetDay(tdy) + normalizedWeekday(weekday)
             IN  FromDate("weekday", addDays(tdy, offset))
      ELSE IF IsDef(dayModifier)
        THEN FromDate("day-modifier", addDays(tdy, dayModifier))
      ELSE Resolved(kind0, year0, month0, day0)

Resolve ==
  /\ pc = "resolve"
  /\ LET r == ResolveDate(match.date, today)
     IN  IF absoluteDateCall(match.date) = "throw"
           THEN /\ pc' = "thrown"
                /\ UNCHANGED <<fields, result>>
         ELSE IF r.failed
           THEN /\ Fail("invalidDate")
                /\ UNCHANGED fields
           ELSE /\ year' = r.year /\ month' = r.month /\ day' = r.day
                /\ dateExpressionKind' = r.kind
                /\ hour' = hourOf(match.time)
                /\ minute' = minuteOf(match.time)
                /\ ampm' = ampmOf(match.time.ampmToken)
                /\ pc' = "validate"
                /\ UNCHANGED result
  /\ place' = placeOf(match)
  /\ UNCHANGED <<args, match, title, start, end, computed, rolls, lastIndex, prev>>

(***************************************************************************)
(* Lines 214-274: range checks and the 12-hour conversion.                 *)
(***************************************************************************)
\* lines 214-233
dateError(y, mo, d) ==
  IF IsDef(mo) /\ (mo < 1 \/ mo > 12) THEN "month"
  ELSE IF IsDef(d) /\ d < 1 THEN "day"
  ELSE IF IsDef(y) /\ IsDef(mo) /\ IsDef(d) /\ ~isValidDayOfMonth(y, mo, d)
    THEN "invalidDate"
  ELSE ""

\* variant: only the 24-hour range is checked, with or without a period word
hourError_24hOnly(ap, h) ==
  IF ~IsDef(h) THEN ""
  ELSE IF h < 0 \/ h > 23 THEN "hour"
  ELSE ""

\* lines 235-249
hourError(ap, h) ==
  IF ~IsDef(h) THEN ""
  ELSE IF ap # "" /\ (h < 1 \/ h > 12) THEN "ampmHour"
  ELSE IF ap = "" /\ (h < 0 \/ h > 23) THEN "hour"
  ELSE ""

\* lines 251-256
minuteError(mi) ==
  IF IsDef(mi) /\ (mi < 0 \/ mi > 59) THEN "minute" ELSE ""

\* variant: 12 is added for every PM hour, noon included
convertHour_pmAlways(ap, h) ==
  IF ap = "am" /\ h = 12 THEN 0
  ELSE IF ap = "pm" THEN h + 12
  ELSE h

\* lines 258-264
convertHour(ap, h) ==
  IF ap = "am" /\ h = 12 THEN 0
  ELSE IF ap = "pm" /\ h < 12 THEN h + 12
  ELSE h

Validate ==
  /\ pc = "validate"
  /\ LET e1 == dateError(year, month, day)
         e2 == hourError(ampm, hour)
         e3 == minuteError(minute)
     IN  IF e1 # "" THEN Fail(e1) /\ UNCHANGED <<hour, minute>>
         ELSE IF e2 # "" THEN Fail(e2) /\ UNCHANGED <<hour, minute>>
         ELSE IF e3 # "" THEN Fail(e3) /\ UNCHANGED <<hour, minute>>
         ELSE LET h  == IF IsDef(hour) THEN convertHour(ampm, hour)
                                       ELSE Undefined
                  mi == IF IsDef(hour) THEN minute ELSE Undefined
              IN  IF ~IsDef(year) \/ ~IsDef(month) \/ ~IsDef(day)
                    THEN /\ Fail("unresolved")
                         /\ hour' = h /\ minute' = mi
                    ELSE /\ hour' = h /\ minute' = mi
                         /\ pc' = "build"
                         /\ UNCHANGED result
  /\ UNCHANGED <<args, match, year, month, day, ampm, dateExpressionKind,
                 texts, start, end, computed, rolls, lastIndex, prev>>

(***************************************************************************)
(* Lines 276-313: start and end, and the correction of past starts.        *)
(***************************************************************************)
\* variant: truthiness test, so hour 0 and minute 0 count as absent
hasTime_truthy(h, mi) == IsDef(h) /\ h # 0 /\ IsDef(mi) /\ mi # 0

\* line 277
hasTime(h, mi) == IsDef(h) /\ IsDef(mi)

\* line 283
timedStart(y, mo, d, h, mi) ==
  NewDate(y, mo - 1, d, h * MsPerHour + mi * MsPerMinute)

\* line 284
timedEnd(s, minutes) == PlusMs(s, minutes * 60 * 1000)

\* line 286
allDayStart(y, mo, d) == NewDate(y, mo - 1, d, 0)

\* line 287
allDayEnd(s) == addDays(s, 1)

DEFAULT_TITLE == <<Txt("new-schedule")>>

\* variant: no default for an empty remainder
titleOf_noDefault(str, m) ==
  trim(IF m.form = "matched" THEN m.rest ELSE str)

\* line 276: scheduleString.replace(MATCHER, "").trim() || default, m the
\* match the replacement finds
titleOf(str, m) ==
  LET replaced == IF m.form = "matched" THEN m.rest ELSE str
  IN  IF trim(replaced) = <<>> THEN DEFAULT_TITLE ELSE trim(replaced)

Build ==
  /\ pc = "build"
  /\ LET s == IF hasTime(hour, minute)
                THEN timedStart(year, month, day, hour, minute)
                ELSE allDayStart(year, month, day)
         e == IF hasTime(hour, minute)
                THEN timedEnd(s, durationMinutes(duration))
                ELSE allDayEnd(s)
     IN  /\ start' = s
         /\ end' = e
         /\ computed' = [start |-> s, end |-> e]
  /\ \E r \in {exec(scheduleString)} :
         /\ title' = titleOf(scheduleString, r.match)
         /\ lastIndex' = r.lastIndex
  /\ pc' = "roll"
  /\ UNCHANGED <<args, match, fields, place, rolls, result, prev>>

\* line 290
comparisonNow(timed) == IF timed THEN now ELSE today

\* variant: a start equal to the reference point counts as past
isPast_orEqual(s, timed) == ~Before(comparisonNow(timed), s)

\* line 291 and the loop condition of line 293
isPast(s, timed) == Before(s, comparisonNow(timed))

\* variant: advanced by a day instead of a week
rollWeek_oneDay(date) == addDays(date, 1)

\* lines 298-299
rollWeek(date) == addDays(date, 7)

\* variant: the advanced date is dropped
rollYear_dropped(date) == date

\* lines 294-295
rollYear(date) == addYears(date, 1)

\* lines 292-296: one iteration of the loop
RollYears ==
  /\ pc = "roll"
  /\ dateExpressionKind = "absolute-month-day"
  /\ isPast(start, hasTime(hour, minute))
  /\ rolls < MaxRolls
  /\ start' = rollYear(start)
  /\ end' = rollYear(end)
  /\ rolls' = rolls + 1
  /\ UNCHANGED <<args, match, fields, texts, pc, computed, result, lastIndex, prev>>

\* lines 297-300
RollWeek ==
  /\ pc = "roll"
  /\ dateExpressionKind # "absolute-month-day"
  /\ isPast(start, hasTime(hour, minute))
  /\ start' = rollWeek(start)
  /\ end' = rollWeek(end)
  /\ rolls' = rolls + 1
  /\ pc' = "return"
  /\ UNCHANGED <<args, match, fields, texts, computed, result, lastIndex, prev>>

\* lines 303-313
Return ==
  /\ \/ pc = "return"
     \/ pc = "roll" /\ ~isPast(start, hasTime(hour, minute))
  /\ result' = [ok |-> TRUE, error |-> "", start |-> start, end |-> end,
                allDay |-> ~hasTime(hour, minute), title |-> title,
                location |-> place, source |-> scheduleString]
  /\ pc' = "done"
  /\ UNCHANGED <<args, match, fields, texts, start, end, computed, rolls,
                 lastIndex, prev>>

Next == Match \/ Resolve \/ Validate \/ Build \/ RollYears \/ RollWeek \/ Return

Spec == Init /\ [][Next]_vars

MaxShortTail == 2

\* the sentences of Init with shorter free text, at one now, with every step
\* eventually taken
ShortSentences ==
  { lead \o body : lead \in {<<>>, <<Txt("sp")>>},
                   body \in SeqsUpTo(TailAlphabet, MaxShortTail)
                            \cup { <<DateTok(de)>> \o tail :
                                     de \in FamilyExprs,
                                     tail \in SeqsUpTo(TailAlphabet, MaxShortTail) } }

InitTotal ==
  /\ \/ /\ input \in {Phrase(de, te) : de \in DateExprs, te \in FewTimeExprs}
        /\ duration = Undefined
     \/ /\ input \in {Phrase(de, te) : de \in FewDateExprs, te \in TimeExprs}
        /\ duration \in Durations
     \/ /\ input \in ShortSentences
        /\ duration = Undefined
  /\ now \in FewNows
  /\ Locals
  /\ lastIndex = 0
  /\ prev = NoPrev

TotalSpec == InitTotal /\ [][Next]_vars /\ WF_vars(Next)

(***************************************************************************)
(* Calls one after another in the same module instance: MATCHER is a       *)
(* module-level object, so its lastIndex is what a call could leave behind *)
(* for the next.  prev remembers one earlier call and its result.          *)
(***************************************************************************)
CallNows == {n \in Nows : n.m = 1 /\ n.d = 17 /\ n.ms = 9 * MsPerHour}

CallInputs ==
  { <<>>,
    <<Txt("word")>>,
    <<DateTok(DateExpr("naeil", "", Undefined, Undefined, Undefined, "", "", "")),
      Txt("sp"), TimeTok(TimeExpr("ohu", "si", 3, Undefined, "ban", Undefined)),
      Txt("sp"), Txt("word"), Txt("eseo"), Txt("sp"), Txt("word")>>,
    Phrase(DateExpr("oneul", "", Undefined, Undefined, Undefined, "", "", ""),
           TimeExpr("", "si", 8, Undefined, "", Undefined)),
    Phrase(DateExpr("", "", Undefined, 1, 2, "", "", ""), NoTime),
    Phrase(DateExpr("", "", Undefined, 2, 30, "", "", ""), NoTime) }

NewCall ==
  /\ input \in CallInputs
  /\ now \in CallNows
  /\ duration \in Durations
  /\ Locals

InitCalls ==
  /\ NewCall
  /\ lastIndex = 0
  /\ prev = NoPrev

\* the call has returned and the next one begins; the finished call may be
\* the one that is remembered
Again ==
  /\ pc = "done"
  /\ \/ prev' = [set |-> TRUE, input |-> input, now |-> now,
                 duration |-> duration, result |-> result]
     \/ UNCHANGED prev
  /\ input' \in CallInputs
  /\ now' \in CallNows
  /\ duration' \in Durations
  /\ pc' = "match"
  /\ match' = NoMatch
  /\ year' = Undefined /\ month' = Undefined /\ day' = Undefined
  /\ hour' = Undefined /\ minute' = Undefined
  /\ ampm' = "" /\ dateExpressionKind' = ""
  /\ place' = NoLocation /\ title' = <<>>
  /\ start' = NoDate /\ end' = NoDate /\ computed' = NoDate
  /\ rolls' = 0
  /\ result' = NoResult
  /\ UNCHANGED lastIndex

NextCalls == Next \/ Again

CallsSpec == InitCalls /\ [][NextCalls]_vars

\* the call runs to completion once started; only bare month/day and
\* day-modifier sentences
YearRollSpec == InitYearRoll /\ [][Next]_vars /\ WF_vars(Next)

TypeOK ==
  /\ pc \in {"match", "resolve", "validate", "build", "roll", "return", "done",
            "thrown"}
  /\ rolls \in 0..MaxRolls
  /\ result.ok \in BOOLEAN

(***************************************************************************)
(* Calendar measures used to state the properties; they do not share the   *)
(* carry arithmetic of the Date model above.                               *)
(***************************************************************************)
GregorianLastDay(y, mo) ==
  IF mo = 2
    THEN (IF y % 400 = 0 \/ (y % 4 = 0 /\ y % 100 # 0) THEN 29 ELSE 28)
    ELSE <<31, 28, 31, 30, 31, 30, 31, 31, 30, 31, 30, 31>>[mo]

\* number of the day in the proleptic Gregorian calendar
DayNumber(date) ==
  LET py == date.y - 1
      before == <<0, 31, 59, 90, 120, 151, 181, 212, 243, 273, 304, 334>>
      leapDay == IF date.m >= 2 /\ GregorianLastDay(date.y, 2) = 29
                   THEN 1 ELSE 0
  IN  365 * py + (py \div 4) - (py \div 100) + (py \div 400)
        + before[date.m + 1] + leapDay + date.d

\* milliseconds from a to b (a few days at most)
MsBetween(a, b) == (DayNumber(b) - DayNumber(a)) * MsPerDay + (b.ms - a.ms)

Succeeded == pc = "done" /\ result.ok

\* the reference point of the past-start correction
ReferencePoint == IF result.allDay THEN [now EXCEPT !.ms = 0] ELSE now

TimeTyped == match.time.hourForm # ""

PeriodTyped == match.time.ampmToken # ""

\* the year an explicit-year expression names
TypedYear ==
  IF match.date.yearTok = "digits" THEN match.date.yearDigits ELSE now.y + 1

(***************************************************************************)
(* C1: whenever the parse succeeds, end is strictly later than start,      *)
(* also after the 7-day or whole-year correction.                          *)
(***************************************************************************)
C1_EndAfterStart == Succeeded => Before(result.start, result.end)

(***************************************************************************)
(* C2: a successful all-day parse starts at local midnight and ends at     *)
(* local midnight of the immediately following calendar day, corrected or  *)
(* not.                                                                    *)
(***************************************************************************)
C2_AllDayOneCalendarDay ==
  (Succeeded /\ result.allDay) =>
     /\ result.start.ms = 0
     /\ result.end.ms = 0
     /\ DayNumber(result.end) = DayNumber(result.start) + 1

(***************************************************************************)
(* C3: a successful timed parse lasts exactly defaultDurationMinutes       *)
(* minutes (60 when the option is omitted), corrected or not.              *)
(***************************************************************************)
C3_TimedDuration ==
  (Succeeded /\ ~result.allDay) =>
     MsBetween(result.start, result.end)
       = (IF duration = Undefined THEN 60 ELSE duration) * MsPerMinute

(***************************************************************************)
(* C4: a successful parse is all-day iff no time-of-day token was matched; *)
(* with a time token the start carries the resolved hour and minute.       *)
(***************************************************************************)
C4_AllDayIffNoTime ==
  Succeeded =>
     /\ result.allDay <=> ~TimeTyped
     /\ TimeTyped => result.start.ms = hour * MsPerHour + minute * MsPerMinute
     /\ ~TimeTyped => result.start.ms = 0

C4_Witness ==
  /\ Succeeded /\ TimeTyped /\ ~result.allDay
  /\ match.time.hourDigits = 9 /\ minute = 0
  /\ rolls = 1

(***************************************************************************)
(* C5: an expression with an explicit year (or next-year word) is never    *)
(* corrected: start is exactly the typed year, month, day and time, even   *)
(* when that is earlier than now.                                          *)
(***************************************************************************)
C5_ExplicitYearLiteral ==
  (Succeeded /\ dateExpressionKind = "absolute-with-year") =>
     /\ result.start.y = TypedYear
     /\ result.start.m + 1 = match.date.monthDigits
     /\ result.start.d = match.date.dayDigits
     /\ result.start.ms = (IF TimeTyped THEN hour * MsPerHour + minute * MsPerMinute
                                        ELSE 0)

(***************************************************************************)
(* C6: for the kinds day-modifier, weekday and month-modifier a computed   *)
(* start strictly before the reference point moves start and end by        *)
(* exactly 7 days, once; otherwise both are returned as computed.  An      *)
(* all-day "today" is never moved.                                         *)
(***************************************************************************)
C6_SevenDayRoll ==
  (Succeeded /\ dateExpressionKind \in {"day-modifier", "weekday", "month-modifier"}) =>
     /\ IF Before(computed.start, ReferencePoint)
          THEN /\ DayNumber(result.start) = DayNumber(computed.start) + 7
               /\ result.start.ms = computed.start.ms
               /\ DayNumber(result.end) = DayNumber(computed.end) + 7
               /\ result.end.ms = computed.end.ms
          ELSE /\ result.start = computed.start
               /\ result.end = computed.end
     /\ (match.date.word = "oneul" /\ result.allDay)
          => result.start = [now EXCEPT !.ms = 0]

C6_Witness ==
  /\ Succeeded /\ dateExpressionKind = "weekday" /\ ~result.allDay
  /\ Before(computed.start, now)
  /\ rolls = 1

(***************************************************************************)
(* C7: a bare month/day is resolved in the year of now (and the month of   *)
(* now when no month is typed); whole years are added while the start is   *)
(* before the reference point.  The loop terminates, and the returned      *)
(* start is not before the reference point and lies in the year of now or  *)
(* the next one.                                                           *)
(***************************************************************************)
C7_Resolved ==
  ((pc = "roll" \/ Succeeded) /\ dateExpressionKind = "absolute-month-day") =>
     /\ computed.start.y = now.y
     /\ computed.start.m + 1 = (IF IsDef(match.date.monthDigits)
                                  THEN match.date.monthDigits ELSE now.m + 1)
     /\ (pc = "roll" /\ rolls > 0) => ~isPast(start, TimeTyped)
     /\ (pc = "done" /\ result.ok) =>
          /\ ~Before(result.start, ReferencePoint)
          /\ result.start.y \in {now.y, now.y + 1}
          /\ (rolls > 0) <=> Before(computed.start, ReferencePoint)

C9_HourConversion ==
  (Succeeded /\ TimeTyped) =>
     LET h     == match.time.hourDigits
         tok   == match.time.ampmToken
         isAM  == tok \in {"saebyeok", "achim", "ojeon"}
         isPM  == tok \in {"jeomsim", "ohu", "jeonyeok", "bam"}
         getHours == result.start.ms \div MsPerHour
     IN  /\ getHours \in 0..23
         /\ (isAM /\ h = 12) => getHours = 0
         /\ (isAM /\ h \in 1..11) => getHours = h
         /\ (isPM /\ h \in 1..11) => getHours = h + 12
         /\ (isPM /\ h = 12) => getHours = 12
         /\ (~isAM /\ ~isPM) => getHours = h
         /\ isAM \/ isPM \/ tok = ""

C9_Witness ==
  /\ Succeeded /\ match.time.ampmToken = "bam" /\ match.time.hourDigits = 12
  /\ result.start.ms \div MsPerHour = 12

(***************************************************************************)
(* C10: no impossible calendar date succeeds: a typed month outside 1..12, *)
(* a day below 1 or beyond the last day of the resolved (year, month)      *)
(* fails, so the date computed before the correction has exactly the       *)
(* typed month and day.                                                    *)
(***************************************************************************)
C10_ImpossibleDateRejected ==
  (Succeeded /\ IsDef(match.date.dayDigits)) =>
     /\ match.date.dayDigits >= 1
     /\ match.date.dayDigits <= GregorianLastDay(year, month)
     /\ computed.start.d = match.date.dayDigits
     /\ computed.start.m + 1 = month
     /\ IsDef(match.date.monthDigits) =>
          /\ match.date.monthDigits \in 1..12
          /\ month = match.date.monthDigits
     /\ match.date.yearTok = "digits" =>
          match.date.dayDigits <= GregorianLastDay(match.date.yearDigits, month)

C10_Witness ==
  /\ pc = "done" /\ ~result.ok /\ result.error = "invalidDate"
  /\ dateExpressionKind = "absolute-month-day"
  /\ match.date.monthDigits = 2 /\ match.date.dayDigits = 29
  /\ GregorianLastDay(now.y, 2) = 28

(***************************************************************************)
(* Measurements on the sentence, taken from the tokens themselves.         *)
(***************************************************************************)
\* the positions of the sentence that hold text
TextPositions == {i \in 1..Len(input) : input[i].kind # "sp"}

\* the first token that is not a blank
FirstText == input[CHOOSE i \in TextPositions : \A j \in TextPositions : i <= j]

(***************************************************************************)
(* C11: unrecognised input always fails, with two different messages: an   *)
(* empty or whitespace-only sentence fails with the empty-input message    *)
(* (the same result whatever now is), and a sentence whose first text is   *)
(* not a date expression fails with the pattern-not-recognised message;    *)
(* neither returns ok.                                                     *)
(***************************************************************************)
C11_UnrecognisedInputFails ==
  pc = "done" =>
    /\ TextPositions = {} => result = Failure("empty")
    /\ (TextPositions # {} /\ FirstText.kind # "date") =>
          result = Failure("pattern")
    /\ Failure("empty") # Failure("pattern")

C11_Witness ==
  /\ pc = "done" /\ input # <<>> /\ TextPositions = {}
  /\ ~result.ok /\ result.error = "empty"

(***************************************************************************)
(* C12: determinism and isolation: a call with the same sentence, the same *)
(* now and the same default duration as a remembered earlier call returns  *)
(* the identical result, whatever calls were made before or between them;  *)
(* every call starts with MATCHER.lastIndex as it was at load time.        *)
(***************************************************************************)
C12_SameCallSameResult ==
  /\ (pc = "done" /\ prev.set /\ prev.input = input /\ prev.now = now
        /\ prev.duration = duration) => result = prev.result
  /\ pc = "match" => lastIndex = 0

C12_Witness ==
  /\ pc = "done" /\ prev.set /\ prev.input = input /\ prev.now = now
  /\ prev.duration = duration
  /\ result.ok /\ result.location.present /\ result = prev.result

(***************************************************************************)
(* C13: the function is total and never throws: every call that has not    *)
(* returned can take its next step, none ends in an exception, and what is *)
(* returned is either ok with a schedule or a failure with a non-empty     *)
(* message and no schedule.                                                *)
(***************************************************************************)
C13_Returned ==
  /\ pc # "thrown"
  /\ pc = "done" =>
       \/ /\ result.ok /\ result.error = ""
          /\ result.start # NoDate /\ result.end # NoDate
          /\ result.title # <<>> /\ result.source # <<>>
       \/ /\ ~result.ok /\ result.error # ""
          /\ result.start = NoDate /\ result.end = NoDate
          /\ result.title = <<>> /\ result.location = NoLocation
          /\ result.source = <<>>

Kinds(s) == [i \in 1..Len(s) |-> IF s[i].kind = "seo" THEN "eseo" ELSE s[i].kind]

\* t is what is left of s after a non-empty prefix of it is removed; its
\* first token may be the remainder of a marker
ProperSuffix(t, s) ==
  /\ Len(t) < Len(s)
  /\ Kinds(t) = Kinds(SubSeq(s, Len(s) - Len(t) + 1, Len(s)))
  /\ \A i \in 2..Len(t) : t[i] = s[Len(s) - Len(t) + i]

(***************************************************************************)
(* C14: on success the title is the trimmed text left of the normalized    *)
(* sentence after the matched prefix (date, time, particle, location       *)
(* clause), or the default title when nothing is left; it is never empty,  *)
(* has no blank at either end and does not contain the consumed prefix.    *)
(***************************************************************************)
C14_TitleIsRemainder ==
  Succeeded =>
    /\ result.title # <<>>
    /\ result.title[1].kind # "sp"
    /\ result.title[Len(result.title)].kind # "sp"
    /\ match.rest = <<>> => result.title = DEFAULT_TITLE
    /\ match.rest # <<>> =>
         /\ result.title = match.rest
         /\ ProperSuffix(result.title, result.source)
         /\ DateTok(match.date) = result.source[1]
         /\ Len(result.title) < Len(result.source) - Len(match.place)
         /\ match.time # NoTime =>
              Len(result.title) < Len(result.source) - Len(match.place) - 1

C14_Witness ==
  /\ Succeeded /\ match.time # NoTime /\ result.location.present
  /\ result.title = <<Txt("word")>>

\* The location clause of the text that follows a date expression, read off
\* the tokens: after the time expression, if the text starts with one, and
\* after the particle, if it comes next, the text up to the last location
\* marker that has something other than blanks before it.
ClauseOf(tail) ==
  LET n        == Len(tail)
      textFrom(i) == {j \in i..n : tail[j].kind # "sp"}
      first(S) == IF S = {} THEN n + 1 ELSE CHOOSE j \in S : \A k \in S : j <= k
      f        == first(textFrom(1))
      timed    == f <= n /\ tail[f].kind = "time"
      g        == IF timed THEN first(textFrom(f + 1)) ELSE 1
      from     == IF g <= n /\ tail[g].kind = "e" THEN g + 1 ELSE g
      left     == IF g <= n /\ tail[g].kind = "eseo"
                    THEN [tail EXCEPT ![g] = Txt("seo")] ELSE tail
      text(j)  == trim(SubSeq(left, from, j - 1))
      ends     == {j \in (from + 1)..n : tail[j].kind = "eseo" /\ text(j) # <<>>}
      marker   == CHOOSE j \in ends : \A k \in ends : j >= k
  IN  IF ends = {} THEN [present |-> FALSE, text |-> <<>>, after |-> 0]
      ELSE [present |-> TRUE, text |-> text(marker), after |-> n - marker]

(***************************************************************************)
(* C15: on success the location is the trimmed text between the date/time *)
(* expression (and the particle) and the location marker that follows it,  *)
(* and that text is not part of the title; without such a clause there is  *)
(* no location.  The location is read off the text after the date          *)
(* expression alone, so it is the same for every date-expression family,   *)
(* and it is never empty or blank.                                         *)
(***************************************************************************)
C15_LocationClause ==
  Succeeded =>
    LET clause == ClauseOf(Tail(result.source))
    IN  /\ result.location.present = clause.present
        /\ result.location.text = clause.text
        /\ result.location.present =>
             /\ \E i \in 1..Len(result.location.text) :
                   result.location.text[i].kind # "sp"
             /\ result.location.text[1].kind # "sp"
             /\ result.title = DEFAULT_TITLE
                  \/ Len(result.title) <= clause.after

C15_Witness ==
  /\ Succeeded /\ dateExpressionKind = "absolute-with-year"
  /\ match.time # NoTime
  /\ result.location = [present |-> TRUE, text |-> <<Txt("word")>>]
  /\ result.title = <<Txt("word")>>

(***************************************************************************)
(* C16: a month-relative expression with day D targets day D of the month  *)
(* of now (this-month words) or of the month after it (next-month words,   *)
(* January of the next year after December), for every now; when D is not  *)
(* a day of that month the parse fails.                                    *)
(***************************************************************************)
C16_MonthRelativeTarget ==
  (pc = "done" /\ match.date.word \in THIS_MONTH_TOKENS \cup NEXT_MONTH_TOKENS
     /\ IsDef(match.date.dayDigits)) =>
    LET ahead       == IF match.date.word \in NEXT_MONTH_TOKENS THEN 1 ELSE 0
        targetYear  == IF now.m + ahead > 11 THEN now.y + 1 ELSE now.y
        targetMonth == (now.m + ahead) % 12
        D           == match.date.dayDigits
    IN  IF D \in 1..GregorianLastDay(targetYear, targetMonth + 1)
          THEN result.ok => /\ computed.start.y = targetYear
                            /\ computed.start.m = targetMonth
                            /\ computed.start.d = D
          ELSE ~result.ok

\* the requested day of the week, Monday = 1 .. Sunday = 7
RequestedWeekday ==
  CHOOSE n \in 1..7 :
    <<"wol", "hwa", "su", "mok", "geum", "to", "il">>[n] = match.date.weekdayToken

\* the days the week modifier adds
WeekDays ==
  IF match.date.weekModifierToken \in {"damju", "daeumju"} THEN 7
  ELSE IF match.date.weekModifierToken \in {"dadamju", "dadaeumju"} THEN 14
  ELSE 0

(***************************************************************************)
(* C17: for a weekday expression the date computed before roll-forward is  *)
(* today + (W - today.weekday + n) days, W being 0, 7 or 14 by the week    *)
(* modifier, today.weekday 0..6 from Sunday, n the requested weekday with  *)
(* Sunday as 7; the returned start falls on the requested day of the week, *)
(* also after a 7-day roll, and this-week Sunday is never before today.    *)
(***************************************************************************)
C17_WeekdayOffset ==
  (Succeeded /\ match.date.weekdayToken # "") =>
    /\ dateExpressionKind = "weekday"
    /\ DayNumber(computed.start) =
         DayNumber(now) + WeekDays - (DayNumber(now) % 7) + RequestedWeekday
    /\ DayNumber(result.start) % 7 = RequestedWeekday % 7
    /\ (WeekDays = 0 /\ match.date.weekdayToken = "il") =>
         /\ DayNumber(computed.start) >= DayNumber(now)
         /\ DayNumber(result.start) >= DayNumber(now)

C17_Witness ==
  /\ Succeeded /\ match.date.weekModifierToken = "ibeonju"
  /\ match.date.weekdayToken = "il"
  /\ DayNumber(now) % 7 = 0
  /\ DayNumber(result.start) = DayNumber(now) + 7

\* the days a day modifier adds
ModifierDays ==
  IF match.date.word = "naeil" THEN 1
  ELSE IF match.date.word = "more" THEN 2
  ELSE 0

(***************************************************************************)
(* C18: for a day-modifier expression the date computed before             *)
(* roll-forward is today + 0, 1 or 2 days (today, tomorrow, the day after) *)
(* with carry across month and year ends; tomorrow and the day after are   *)
(* never rolled, and today is rolled, by 7 days, only when it is timed and *)
(* the time is strictly earlier than now.                                  *)
(***************************************************************************)
C18_DayModifierOffset ==
  (Succeeded /\ match.date.word \in {"oneul", "naeil", "more"}) =>
    /\ dateExpressionKind = "day-modifier"
    /\ DayNumber(computed.start) = DayNumber(now) + ModifierDays
    /\ IF ModifierDays = 0 /\ ~result.allDay /\ computed.start.ms < now.ms
         THEN /\ DayNumber(result.start) = DayNumber(now) + 7
              /\ result.start.ms = computed.start.ms
              /\ MsBetween(computed.end, result.end) = 7 * MsPerDay
         ELSE /\ result.start = computed.start
              /\ result.end = computed.end

C18_Witness ==
  /\ Succeeded /\ match.date.word = "more"
  /\ now.m = 11 /\ now.d = 31
  /\ result.start.y = now.y + 1 /\ result.start.m = 0 /\ result.start.d = 2

(***************************************************************************)
(* C19: the date expression is optional: a sentence that begins with a     *)
(* time expression (a period-of-day word and an hour within range) and has *)
(* no date expression before it parses as a timed event on the day of now, *)
(* or 7 days later when that time is already past.                         *)
(***************************************************************************)
C19_DateOptional ==
  (pc = "done" /\ TextPositions # {} /\ FirstText.kind = "time"
     /\ FirstText.time.ampmToken \in PM_TOKENS
     /\ FirstText.time.hourDigits \in 1..12) =>
    /\ result.ok
    /\ ~result.allDay
    /\ DayNumber(result.start) \in {DayNumber(now), DayNumber(now) + 7}

(***************************************************************************)
(* C20: for every accepted time expression the minute of the returned      *)
(* start is 30 when the half-past word was matched, M when a minute        *)
(* numeral M was matched, MM for H:MM without refinement and 0 for an hour *)
(* numeral without refinement, for both hour forms.                        *)
(***************************************************************************)
C20_MinuteResolution ==
  (Succeeded /\ TimeTyped) =>
    (result.start.ms \div MsPerMinute) % 60 =
      IF match.time.minuteForm = "ban" THEN 30
      ELSE IF match.time.minuteForm = "bun" THEN match.time.minuteDigits
      ELSE IF match.time.hourForm = "colon" THEN match.time.colonMinuteDigits
      ELSE 0

\* the kind the shape of the matched date expression calls for
KindTyped ==
  IF match.date.yearTok # "" THEN "absolute-with-year"
  ELSE IF match.date.word \in THIS_MONTH_TOKENS \cup NEXT_MONTH_TOKENS
    THEN "month-modifier"
  ELSE IF match.date.word \in {"oneul", "naeil", "more"} THEN "day-modifier"
  ELSE IF match.date.weekdayToken # "" THEN "weekday"
  ELSE "absolute-month-day"

(***************************************************************************)
(* C21: the unresolved-date failure is unreachable: once the date of a     *)
(* matched sentence is resolved, exactly one kind is selected, the one the *)
(* expression calls for, and year, month and day are all defined; no call  *)
(* returns the could-not-compute-a-date failure.                           *)
(***************************************************************************)
C21_DateAlwaysResolved ==
  /\ pc = "done" => result.error # "unresolved"
  /\ (pc \in {"validate", "build", "roll", "return"} \/ Succeeded) =>
       /\ match.form = "matched"
       /\ dateExpressionKind = KindTyped
       /\ IsDef(year) /\ IsDef(month) /\ IsDef(day)

C21_Witness ==
  /\ Succeeded /\ match.date.yearTok = "naenyeon"
  /\ dateExpressionKind = "absolute-with-year"
  /\ year = now.y + 1

(***************************************************************************)
(* C22, as stated: a relative or year-less expression never yields an      *)
(* event in the past: on success with a kind other than absolute-with-year *)
(* the returned start is not earlier than the reference point (now for a   *)
(* timed event, midnight of today for an all-day event).                   *)
(***************************************************************************)
C22_NeverInPast ==
  (Succeeded /\ dateExpressionKind # "absolute-with-year") =>
     ~Before(result.start, ReferencePoint)

(***************************************************************************)
(* C22, amended: the returned start of a weekday, day-modifier or bare     *)
(* month/day expression is not earlier than the reference point; the start *)
(* of a month-relative expression is earlier than it only when the date    *)
(* computed for it was more than 7 days in the past, and it is then that   *)
(* date advanced by exactly 7 days.                                        *)
(***************************************************************************)
C22_NeverInPastButMonthRelative ==
  (Succeeded /\ dateExpressionKind # "absolute-with-year"
     /\ Before(result.start, ReferencePoint)) =>
    /\ dateExpressionKind = "month-modifier"
    /\ DayNumber(result.start) = DayNumber(computed.start) + 7
    /\ result.start.ms = computed.start.ms
    /\ DayNumber(computed.start) + 7 <= DayNumber(now)

C22_Witness ==
  /\ Succeeded /\ dateExpressionKind = "weekday"
  /\ Before(computed.start, ReferencePoint)
  /\ ~Before(result.start, ReferencePoint)

(***************************************************************************)
(* C23: rolling a bare month/day forward by whole years keeps the typed    *)
(* date: on success with kind absolute-month-day the returned start has    *)
(* the typed month (the month of now when none is typed), the typed day of *)
(* month and the computed time of day, so only its year differs, also for  *)
(* the 29th of February of a leap year that has passed; end stays at the   *)
(* same offset in calendar days and time of day from start.                *)
(***************************************************************************)
C23_YearRollKeepsDate ==
  (Succeeded /\ dateExpressionKind = "absolute-month-day") =>
    /\ result.start.m + 1 = IF IsDef(match.date.monthDigits)
                              THEN match.date.monthDigits ELSE now.m + 1
    /\ result.start.d = match.date.dayDigits
    /\ result.start.ms = computed.start.ms
    /\ result.end.ms = computed.end.ms
    /\ DayNumber(result.end) - DayNumber(result.start)
         = DayNumber(computed.end) - DayNumber(computed.start)

====
